---- MODULE Spec2Model ----
(***************************************************************************)
(* Model of the nuxeo-api-testing harvester: the two crawlers of           *)
(* nuxeo_query.py (NuxeoApiFetcher, DbQueryFetcher), the artifact writers  *)
(* and the comparison loader of compare.py.                                *)
(*                                                                         *)
(* Text (file names, file contents, loaded lines) is a sequence of         *)
(* one-character strings; a document is the number of its tree node.       *)
(***************************************************************************)
EXTENDS Integers, Sequences, FiniteSets, TLC

(***************************************************************************)
(* Bounds of the model.                                                    *)
(***************************************************************************)
\* nodes of a generated tree (besides the root folder, node 0)
MaxNodes == 3
\* largest declared position of a generated component
MaxPos == 1
\* entries the backend puts on one page in the small worlds
SmallPage == 2
\* anomalous responses a loop is followed through before the model stops
MaxSpin == 3
\* most components of the record in the rebatching worlds
MaxComponents == 250

(***************************************************************************)
(* Program constants.                                                      *)
(***************************************************************************)
\* batch_size of get_pages_of_child_components
batch_size == 100
\* 'pageSize': '100' of the three API requests
ApiPageSize == 100

(***************************************************************************)
(* Text helpers.                                                           *)
(***************************************************************************)
Min(a, b) == IF a < b THEN a ELSE b

DigitChar(d) == <<"0", "1", "2", "3", "4", "5", "6", "7", "8", "9">>[d + 1]

\* str(n) of a non-negative integer, as done by the f-strings
RECURSIVE Str(_)
Str(n) == IF n < 10 THEN <<DigitChar(n)>> ELSE Str(n \div 10) \o <<DigitChar(n % 10)>>

\* byte value of a character (ASCII), for the object store's key order
Ord(c) ==
    CASE c = "\n" -> 10
      [] c = "-" -> 45
      [] c = "." -> 46
      [] c = "0" -> 48 [] c = "1" -> 49 [] c = "2" -> 50 [] c = "3" -> 51
      [] c = "4" -> 52 [] c = "5" -> 53 [] c = "6" -> 54 [] c = "7" -> 55
      [] c = "8" -> 56 [] c = "9" -> 57
      [] c = "f" -> 102 [] c = "j" -> 106 [] c = "l" -> 108 [] c = "n" -> 110
      [] c = "o" -> 111 [] c = "p" -> 112 [] c = "r" -> 114 [] c = "s" -> 115
      [] c = "u" -> 117
      [] c = "{" -> 123 [] c = "}" -> 125

\* a < b in byte-wise lexicographic order
RECURSIVE TextLess(_, _)
TextLess(a, b) ==
    IF b = <<>> THEN FALSE
    ELSE IF a = <<>> THEN TRUE
    ELSE IF Ord(Head(a)) # Ord(Head(b)) THEN Ord(Head(a)) < Ord(Head(b))
    ELSE TextLess(Tail(a), Tail(b))

\* concatenation of a sequence of sequences, half by half
RECURSIVE Flatten(_)
Flatten(ss) ==
    IF ss = <<>> THEN <<>>
    ELSE IF Len(ss) = 1 THEN ss[1]
    ELSE Flatten(SubSeq(ss, 1, Len(ss) \div 2))
         \o Flatten(SubSeq(ss, Len(ss) \div 2 + 1, Len(ss)))

\* sep.join(parts): the parts with sep between each two of them
Join(sep, parts) ==
    IF parts = <<>> THEN <<>>
    ELSE Flatten([i \in 1..(2 * Len(parts) - 1) |->
                    IF i % 2 = 1 THEN parts[(i + 1) \div 2] ELSE sep])

Range(s) == {s[i] : i \in DOMAIN s}

(***************************************************************************)
(* The repository tree and the two backends (external collaborators).      *)
(* world is fixed for a run: the tree behind both backends, the number of  *)
(* entries a backend puts on a page, the scheme of METADATA_STORE, the     *)
(* query shape whose backend reports more pages without end, what the API  *)
(* folder query matches, whether the object store may reject a write, and  *)
(* whether a backend lists the records of a folder a second time.          *)
(* output is what main of nuxeo_query.py has printed, report what main of  *)
(* compare.py has printed and how it ended.                                *)
(***************************************************************************)
VARIABLES world, phase, stack, page_prefix, ret, descendant_folders,
          pages_of_record_components, store, trace, loaded, output, report

vars == <<world, phase, stack, page_prefix, ret, descendant_folders,
          pages_of_record_components, store, trace, loaded, output, report>>

NodeCount == Len(world.kind)

KindOf(n) == IF n = 0 THEN "folder" ELSE world.kind[n]

ParentOf(n) == world.parent[n]

PosOf(n) == world.pos[n]

\* n lies below a in the tree (parents have smaller numbers than children)
RECURSIVE IsUnder(_, _)
IsUnder(n, a) ==
    IF n = 0 THEN FALSE
    ELSE IF ParentOf(n) = a THEN TRUE
    ELSE IsUnder(ParentOf(n), a)

AllNodes == [i \in 1..NodeCount |-> i]

\* the nodes of the kinds directly under p, in the backend's listing order
ChildrenOf(kinds, p) ==
    SelectSeq(AllNodes, LAMBDA n : KindOf(n) \in kinds /\ ParentOf(n) = p)

\* the nodes of the kinds anywhere under a, in the backend's listing order
DescendantsOf(kinds, a) ==
    SelectSeq(AllNodes, LAMBDA n : KindOf(n) \in kinds /\ IsUnder(n, a))

\* the list as it is, not sorted
SortedByPos_Unsorted(s) == s

\* sorted(components, key=lambda x: x['pos']): ascending and stable, the
\* elements of each position in their order in s, position by position
SortedByPos(s) ==
    IF s = <<>> THEN <<>>
    ELSE LET keys == {PosOf(s[i]) : i \in DOMAIN s}
             lo == CHOOSE v \in keys : \A w \in keys : v <= w
             hi == CHOOSE v \in keys : \A w \in keys : w <= v
         IN  Flatten([k \in 1..(hi - lo + 1) |->
                        SelectSeq(s, LAMBDA x : PosOf(x) = lo + k - 1)])

Reverse(s) == [i \in 1..Len(s) |-> s[Len(s) + 1 - i]]

\* the records of a folder as a backend lists them: once, or, where the
\* backend repeats, once more in reverse behind that
Relisted(records) ==
    IF world.repeat THEN records \o Reverse(records) ELSE records

\* what a query of the method and shape for the uid matches, in order
Listing(method, shape, uid) ==
    IF method = "nuxeoapi"
    THEN CASE shape = "folders" ->
                  \* ecm:ancestorId = uid, no ORDER BY
                  IF world.folderScope = "ancestor"
                  THEN DescendantsOf({"folder"}, uid)
                  ELSE ChildrenOf({"folder"}, uid)
           [] shape = "records" ->
                  \* ecm:parentId = uid ORDER BY ecm:name, ecm:uuid
                  Relisted(ChildrenOf({"record"}, uid))
           [] shape = "components" ->
                  \* ecm:ancestorId = uid ORDER BY ecm:pos
                  SortedByPos(DescendantsOf({"component"}, uid))
    ELSE CASE shape = "folders" -> ChildrenOf({"folder"}, uid)
           [] OTHER -> IF KindOf(uid) = "folder"
                       THEN Relisted(ChildrenOf({"record"}, uid))
                       ELSE ChildrenOf({"record", "component"}, uid)

\* the Lookup service's cursor: '' before the first page, then opaque
EmptyToken == <<>>

TokenOffset(token) == IF token = EmptyToken THEN 0 ELSE token[1]

\* one page of a listing from an offset on
Respond(listing, offset, anomalous) ==
    LET last == Min(offset + world.page, Len(listing))
        entries == SubSeq(listing, offset + 1, last)
    IN  [entries |-> entries,
         isNextPageAvailable |-> anomalous \/ last < Len(listing),
         resumeAfter |-> <<offset + Len(entries)>>]

\* the response to an API request (currentPageIndex = page_index)
ApiResponse(shape, uid, page_index) ==
    Respond(Listing("nuxeoapi", shape, uid), page_index * world.page,
            world.anomaly = shape)

\* the shape a Lookup-service request for documents has for the parent
DocShape(uid) == IF KindOf(uid) = "folder" THEN "records" ELSE "components"

\* the response to a Lookup-service request (resume_after = token)
DbResponse(shape, uid, token) ==
    Respond(Listing("dbquery", shape, uid), TokenOffset(token),
            world.anomaly = shape)

(***************************************************************************)
(* The artifact writers.                                                   *)
(***************************************************************************)
\* the uid of a document, as text
Uid(n) == <<"u">> \o Str(n)

\* json.dumps(record): one line of text, without a line break in it
Dumps(record) == <<"{">> \o Uid(record) \o <<"}">>

\* the joined lines without the line break behind the last one
Jsonl_NoFinalBreak(records) ==
    Join(<<"\n">>, [i \in 1..Len(records) |-> Dumps(records[i])])

\* "\n".join([json.dumps(record) for record in records]) followed by "\n"
Jsonl(records) ==
    Join(<<"\n">>, [i \in 1..Len(records) |-> Dumps(records[i])]) \o <<"\n">>

Extension == <<".", "j", "s", "o", "n", "l">>

\* the parent file name without its page index
ParentFilename_NoPageIndex(prefix, page_index) ==
    Join(<<"-">>, prefix) \o <<"-", "p">> \o Extension

\* f"{'-'.join(page_prefix)}-p{page_index}.jsonl"
ParentFilename(prefix, page_index) ==
    Join(<<"-">>, prefix) \o <<"-", "p">> \o Str(page_index) \o Extension

\* f"{parent_uid}-p{page_index}.jsonl"
ComponentFilename(parent_uid, page_index) ==
    Uid(parent_uid) \o <<"-", "p">> \o Str(page_index) \o Extension

\* write_object_to_local / load_object_to_s3: the object is created or replaced
PutObject(st, key, content) ==
    [k \in DOMAIN st \cup {key} |-> IF k = key THEN content ELSE st[k]]

\* the store after store_parent_metadata_page
store_parent_metadata_page(query_method, prefix, page_index, records) ==
    PutObject(store,
              [method |-> query_method, children |-> FALSE,
               name |-> ParentFilename(prefix, page_index)],
              Jsonl(records))

\* a component page filed beside the parent pages, not under children
store_component_metadata_page_NoSubPath(query_method, parent_uid, page_index, records) ==
    PutObject(store,
              [method |-> query_method, children |-> FALSE,
               name |-> ComponentFilename(parent_uid, page_index)],
              Jsonl(records))

\* the store after store_component_metadata_page
store_component_metadata_page(query_method, parent_uid, page_index, records) ==
    PutObject(store,
              [method |-> query_method, children |-> TRUE,
               name |-> ComponentFilename(parent_uid, page_index)],
              Jsonl(records))

(***************************************************************************)
(* The log of what a run did: page requests with their responses, and      *)
(* artifact writes ("lost" for a write the object store rejected).  index   *)
(* is -1 and token is NoToken when the request                             *)
(* does not carry one; next is the resumeAfter of the response.            *)
(***************************************************************************)
NoToken == <<-1>>

RequestEvent(method, shape, uid, index, token, resp) ==
    [ev |-> "request", method |-> method, shape |-> shape, uid |-> uid,
     index |-> index, token |-> token, entries |-> resp.entries,
     more |-> resp.isNextPageAvailable, next |-> resp.resumeAfter,
     name |-> <<>>]

WriteEvent(method, shape, uid, index, name, records) ==
    [ev |-> "write", method |-> method, shape |-> shape, uid |-> uid,
     index |-> index, token |-> NoToken, entries |-> records,
     more |-> FALSE, next |-> NoToken, name |-> name]

\* a page request that did not get a success response
FailureEvent(method, shape, uid, index, token) ==
    [ev |-> "failure", method |-> method, shape |-> shape, uid |-> uid,
     index |-> index, token |-> token, entries |-> <<>>,
     more |-> FALSE, next |-> NoToken, name |-> <<>>]

(***************************************************************************)
(* The call stack.  A frame holds the locals of one activation.            *)
(***************************************************************************)
Frame(fn, node) ==
    [fn |-> fn, pc |-> "loop", node |-> node, idx |-> 0, more |-> TRUE,
     resume |-> EmptyToken, entries |-> <<>>, i |-> 1, j |-> 1, acc |-> <<>>]

Top == stack[Len(stack)]

Running(method, fn, pc) ==
    /\ phase = method
    /\ stack # <<>>
    /\ Top.fn = fn
    /\ Top.pc = pc

\* the stack with the top frame replaced
Goto(f) == [stack EXCEPT ![Len(stack)] = f]

\* the stack with the top frame replaced and a callee's frame pushed
Call(f, callee) == Append(Goto(f), callee)

\* the stack after the top frame returned
Return == SubSeq(stack, 1, Len(stack) - 1)

\* list.pop()
Pop(s) == SubSeq(s, 1, Len(s) - 1)

\* whether a write to the store succeeds: put_object of the object store
\* may raise, in the worlds where the store rejects writes
PutOutcomes ==
    IF world.scheme = "s3" /\ world.putFails THEN {TRUE, FALSE} ELSE {TRUE}

\* a failed write to the object store raising out of the writer
StoreObject_Raises(ok, written, event, frame) ==
    /\ store' = IF ok THEN written ELSE store
    /\ trace' = Append(trace, IF ok THEN event ELSE [event EXCEPT !.ev = "lost"])
    /\ output' = output
    /\ phase' = IF ok THEN phase ELSE "failed"
    /\ stack' = IF ok THEN Goto(frame) ELSE <<>>

\* a store_..._metadata_page call of a fetcher and the step behind it:
\* load_object_to_s3 catches the exception of put_object, prints it and
\* returns, and the fetcher goes on
StoreObject(ok, written, event, frame) ==
    /\ store' = IF ok THEN written ELSE store
    /\ trace' = Append(trace, IF ok THEN event ELSE [event EXCEPT !.ev = "lost"])
    /\ output' = IF ok THEN output ELSE Append(output, "ERROR loading to S3")
    /\ phase' = phase
    /\ stack' = Goto(frame)

\* a segment tag without its number
Seg_NoNumber(tag, n) == tag

\* f"fp{page_index}" and f"f{i}"
Seg(tag, n) == tag \o Str(n)

(***************************************************************************)
(* NuxeoApiFetcher.                                                        *)
(***************************************************************************)
\* fetch going through the folders before the documents of the root folder
ApiFetchDocuments_FoldersFirst ==
    /\ Running("nuxeoapi", "fetch", "loop")
    /\ page_prefix' = <<<<"r">>>>
    /\ stack' = Append(Call([Top EXCEPT !.pc = "end"],
                            Frame("get_pages_of_documents", Top.node)),
                       Frame("folder_traversal", Top.node))
    /\ UNCHANGED <<world, phase, ret, descendant_folders,
                   pages_of_record_components, store, trace, loaded, output, report>>

\* fetch: page_prefix = ['r'], then the documents of the root folder
ApiFetchDocuments ==
    /\ Running("nuxeoapi", "fetch", "loop")
    /\ page_prefix' = <<<<"r">>>>
    /\ stack' = Call([Top EXCEPT !.pc = "traverse"],
                     Frame("get_pages_of_documents", Top.node))
    /\ UNCHANGED <<world, phase, ret, descendant_folders,
                   pages_of_record_components, store, trace, loaded, output, report>>

\* fetch: the documents of all folders under the root
ApiFetchFolders ==
    /\ Running("nuxeoapi", "fetch", "traverse")
    /\ stack' = Call([Top EXCEPT !.pc = "end"],
                     Frame("folder_traversal", Top.node))
    /\ UNCHANGED <<world, phase, page_prefix, ret, descendant_folders,
                   pages_of_record_components, store, trace, loaded, output, report>>

\* folder_traversal: one page of folders is requested and looked at
ApiFolderPage ==
    /\ Running("nuxeoapi", "folder_traversal", "loop")
    /\ Top.more
    /\ LET resp == ApiResponse("folders", Top.node, Top.idx)
       IN  /\ trace' = Append(trace, RequestEvent("nuxeoapi", "folders",
                                  Top.node, Top.idx, NoToken, resp))
           /\ IF resp.entries = <<>>
              THEN /\ stack' = Goto([Top EXCEPT !.more = FALSE])
                   /\ UNCHANGED page_prefix
              ELSE /\ stack' = Goto([Top EXCEPT
                                       !.more = resp.isNextPageAvailable,
                                       !.entries = resp.entries,
                                       !.i = 1, !.pc = "for"])
                   /\ page_prefix' = Append(page_prefix, Seg(<<"f", "p">>, Top.idx))
    /\ UNCHANGED <<world, phase, ret, descendant_folders,
                   pages_of_record_components, store, loaded, output, report>>

\* folder_traversal: the documents of the next folder of the page
ApiFolderEnter ==
    /\ Running("nuxeoapi", "folder_traversal", "for")
    /\ Top.i <= Len(Top.entries)
    /\ page_prefix' = Append(page_prefix, Seg(<<"f">>, Top.i - 1))
    /\ stack' = Call([Top EXCEPT !.pc = "back"],
                     Frame("get_pages_of_documents", Top.entries[Top.i]))
    /\ UNCHANGED <<world, phase, ret, descendant_folders,
                   pages_of_record_components, store, trace, loaded, output, report>>

\* folder_traversal: page_prefix.pop() behind a folder
ApiFolderLeave ==
    /\ Running("nuxeoapi", "folder_traversal", "back")
    /\ page_prefix' = Pop(page_prefix)
    /\ stack' = Goto([Top EXCEPT !.i = Top.i + 1, !.pc = "for"])
    /\ UNCHANGED <<world, phase, ret, descendant_folders,
                   pages_of_record_components, store, trace, loaded, output, report>>

\* folder_traversal: page_prefix.pop() and page_index += 1 behind a page
ApiFolderNextPage ==
    /\ Running("nuxeoapi", "folder_traversal", "for")
    /\ Top.i > Len(Top.entries)
    /\ page_prefix' = Pop(page_prefix)
    /\ stack' = Goto([Top EXCEPT !.idx = Top.idx + 1, !.pc = "loop"])
    /\ UNCHANGED <<world, phase, ret, descendant_folders,
                   pages_of_record_components, store, trace, loaded, output, report>>

\* folder_traversal: the loop ended
ApiFolderReturn ==
    /\ Running("nuxeoapi", "folder_traversal", "loop")
    /\ ~Top.more
    /\ stack' = Return
    /\ UNCHANGED <<world, phase, page_prefix, ret, descendant_folders,
                   pages_of_record_components, store, trace, loaded, output, report>>

\* get_pages_of_documents going on after a page that reports no further page
ApiDocumentsPage_IgnoresHasMore ==
    /\ Running("nuxeoapi", "get_pages_of_documents", "loop")
    /\ Top.more
    /\ LET resp == ApiResponse("records", Top.node, Top.idx)
       IN  /\ trace' = Append(trace, RequestEvent("nuxeoapi", "records",
                                  Top.node, Top.idx, NoToken, resp))
           /\ IF resp.entries = <<>>
              THEN stack' = Goto([Top EXCEPT !.more = FALSE])
              ELSE stack' = Goto([Top EXCEPT
                                    !.entries = resp.entries,
                                    !.pc = "store"])
    /\ UNCHANGED <<world, phase, page_prefix, ret, descendant_folders,
                   pages_of_record_components, store, loaded, output, report>>

\* get_pages_of_documents: one page of records is requested and looked at
ApiDocumentsPage ==
    /\ Running("nuxeoapi", "get_pages_of_documents", "loop")
    /\ Top.more
    /\ LET resp == ApiResponse("records", Top.node, Top.idx)
       IN  /\ trace' = Append(trace, RequestEvent("nuxeoapi", "records",
                                  Top.node, Top.idx, NoToken, resp))
           /\ IF resp.entries = <<>>
              THEN stack' = Goto([Top EXCEPT !.more = FALSE])
              ELSE stack' = Goto([Top EXCEPT
                                    !.more = resp.isNextPageAvailable,
                                    !.entries = resp.entries,
                                    !.pc = "store"])
    /\ UNCHANGED <<world, phase, page_prefix, ret, descendant_folders,
                   pages_of_record_components, store, loaded, output, report>>

\* the entries without those that occurred before in the sequence
FirstOccurrences(s) ==
    LET keep == SelectSeq([i \in 1..Len(s) |-> i],
                          LAMBDA i : \A h \in 1..(i - 1) : s[h] # s[i])
    IN  [k \in 1..Len(keep) |-> s[keep[k]]]

\* the page written without the entries it holds a second time
ApiDocumentsStore_Deduplicated ==
    /\ Running("nuxeoapi", "get_pages_of_documents", "store")
    /\ \E ok \in PutOutcomes :
          StoreObject(ok,
                      store_parent_metadata_page("nuxeoapi", page_prefix, Top.idx,
                                                 FirstOccurrences(Top.entries)),
                      WriteEvent("nuxeoapi", "parent", Top.node, Top.idx,
                                 ParentFilename(page_prefix, Top.idx),
                                 FirstOccurrences(Top.entries)),
                      [Top EXCEPT !.i = 1, !.pc = "for"])
    /\ UNCHANGED <<world, page_prefix, ret, descendant_folders,
                   pages_of_record_components, loaded, report>>

\* get_pages_of_documents: the page is written
ApiDocumentsStore ==
    /\ Running("nuxeoapi", "get_pages_of_documents", "store")
    /\ \E ok \in PutOutcomes :
          StoreObject(ok,
                      store_parent_metadata_page("nuxeoapi", page_prefix, Top.idx,
                                                 Top.entries),
                      WriteEvent("nuxeoapi", "parent", Top.node, Top.idx,
                                 ParentFilename(page_prefix, Top.idx), Top.entries),
                      [Top EXCEPT !.i = 1, !.pc = "for"])
    /\ UNCHANGED <<world, page_prefix, ret, descendant_folders,
                   pages_of_record_components, loaded, report>>

\* get_pages_of_documents: the components of the next record of the page
ApiDocumentsComponents ==
    /\ Running("nuxeoapi", "get_pages_of_documents", "for")
    /\ Top.i <= Len(Top.entries)
    /\ stack' = Call([Top EXCEPT !.i = Top.i + 1],
                     Frame("get_pages_of_component_documents", Top.entries[Top.i]))
    /\ UNCHANGED <<world, phase, page_prefix, ret, descendant_folders,
                   pages_of_record_components, store, trace, loaded, output, report>>

\* get_pages_of_documents: page_index += 1
ApiDocumentsNextPage ==
    /\ Running("nuxeoapi", "get_pages_of_documents", "for")
    /\ Top.i > Len(Top.entries)
    /\ stack' = Goto([Top EXCEPT !.idx = Top.idx + 1, !.pc = "loop"])
    /\ UNCHANGED <<world, phase, page_prefix, ret, descendant_folders,
                   pages_of_record_components, store, trace, loaded, output, report>>

\* get_pages_of_documents: the loop ended
ApiDocumentsReturn ==
    /\ Running("nuxeoapi", "get_pages_of_documents", "loop")
    /\ ~Top.more
    /\ stack' = Return
    /\ UNCHANGED <<world, phase, page_prefix, ret, descendant_folders,
                   pages_of_record_components, store, trace, loaded, output, report>>

\* the page of components stored whether it holds entries or not
ApiComponentsPage_StoresEmpty ==
    /\ Running("nuxeoapi", "get_pages_of_component_documents", "loop")
    /\ Top.more
    /\ LET resp == ApiResponse("components", Top.node, Top.idx)
       IN  /\ trace' = Append(trace, RequestEvent("nuxeoapi", "components",
                                  Top.node, Top.idx, NoToken, resp))
           /\ stack' = Goto([Top EXCEPT
                               !.more = resp.isNextPageAvailable,
                               !.entries = resp.entries,
                               !.pc = "store"])
    /\ UNCHANGED <<world, phase, page_prefix, ret, descendant_folders,
                   pages_of_record_components, store, loaded, output, report>>

\* get_pages_of_component_documents: one page of components is requested
ApiComponentsPage ==
    /\ Running("nuxeoapi", "get_pages_of_component_documents", "loop")
    /\ Top.more
    /\ LET resp == ApiResponse("components", Top.node, Top.idx)
       IN  /\ trace' = Append(trace, RequestEvent("nuxeoapi", "components",
                                  Top.node, Top.idx, NoToken, resp))
           /\ IF resp.entries = <<>>
              THEN stack' = Goto([Top EXCEPT !.more = FALSE])
              ELSE stack' = Goto([Top EXCEPT
                                    !.more = resp.isNextPageAvailable,
                                    !.entries = resp.entries,
                                    !.pc = "store"])
    /\ UNCHANGED <<world, phase, page_prefix, ret, descendant_folders,
                   pages_of_record_components, store, loaded, output, report>>

\* get_pages_of_component_documents: the page is written, page_index += 1
ApiComponentsStore ==
    /\ Running("nuxeoapi", "get_pages_of_component_documents", "store")
    /\ \E ok \in PutOutcomes :
          StoreObject(ok,
                      store_component_metadata_page("nuxeoapi", Top.node, Top.idx,
                                                    Top.entries),
                      WriteEvent("nuxeoapi", "children", Top.node, Top.idx,
                                 ComponentFilename(Top.node, Top.idx), Top.entries),
                      [Top EXCEPT !.idx = Top.idx + 1, !.pc = "loop"])
    /\ UNCHANGED <<world, page_prefix, ret, descendant_folders,
                   pages_of_record_components, loaded, report>>

\* get_pages_of_component_documents: the loop ended
ApiComponentsReturn ==
    /\ Running("nuxeoapi", "get_pages_of_component_documents", "loop")
    /\ ~Top.more
    /\ stack' = Return
    /\ UNCHANGED <<world, phase, page_prefix, ret, descendant_folders,
                   pages_of_record_components, store, trace, loaded, output, report>>

\* main: the API fetch returned, the Lookup-service fetcher is run
MainRunDbQuery ==
    /\ Running("nuxeoapi", "fetch", "end")
    /\ phase' = "dbquery"
    /\ output' = Append(output, "Fetching data via dbquery lambda")
    /\ stack' = <<Frame("fetch", Top.node)>>
    /\ UNCHANGED <<world, page_prefix, ret, descendant_folders,
                   pages_of_record_components, store, trace, loaded, report>>

(***************************************************************************)
(* DbQueryFetcher.                                                         *)
(***************************************************************************)
\* fetch: page_prefix = ['r'], then the records of the root folder
DbFetchRecords ==
    /\ Running("dbquery", "fetch", "loop")
    /\ page_prefix' = <<<<"r">>>>
    /\ stack' = Call([Top EXCEPT !.pc = "traverse"],
                     Frame("get_pages_of_records", Top.node))
    /\ UNCHANGED <<world, phase, ret, descendant_folders,
                   pages_of_record_components, store, trace, loaded, output, report>>

\* fetch: the records of all folders under the root
DbFetchFolders ==
    /\ Running("dbquery", "fetch", "traverse")
    /\ stack' = Call([Top EXCEPT !.pc = "end"],
                     Frame("folder_traversal", Top.node))
    /\ UNCHANGED <<world, phase, page_prefix, ret, descendant_folders,
                   pages_of_record_components, store, trace, loaded, output, report>>

\* folder_traversal: collection_folders = self.get_descendant_folders(...)
DbTraversalDiscover ==
    /\ Running("dbquery", "folder_traversal", "loop")
    /\ stack' = Call([Top EXCEPT !.pc = "got"],
                     Frame("get_descendant_folders", Top.node))
    /\ UNCHANGED <<world, phase, page_prefix, ret, descendant_folders,
                   pages_of_record_components, store, trace, loaded, output, report>>

\* folder_traversal: the flat folder list is back
DbTraversalCollect ==
    /\ Running("dbquery", "folder_traversal", "got")
    /\ stack' = Goto([Top EXCEPT !.acc = ret, !.i = 1, !.pc = "for"])
    /\ UNCHANGED <<world, phase, page_prefix, ret, descendant_folders,
                   pages_of_record_components, store, trace, loaded, output, report>>

\* folder_traversal: the records of the next folder of the list
DbTraversalEnter ==
    /\ Running("dbquery", "folder_traversal", "for")
    /\ Top.i <= Len(Top.acc)
    /\ page_prefix' = Append(page_prefix, Seg(<<"f">>, Top.i - 1))
    /\ stack' = Call([Top EXCEPT !.pc = "back"],
                     Frame("get_pages_of_records", Top.acc[Top.i]))
    /\ UNCHANGED <<world, phase, ret, descendant_folders,
                   pages_of_record_components, store, trace, loaded, output, report>>

\* folder_traversal: page_prefix.pop() behind a folder
DbTraversalLeave ==
    /\ Running("dbquery", "folder_traversal", "back")
    /\ page_prefix' = Pop(page_prefix)
    /\ stack' = Goto([Top EXCEPT !.i = Top.i + 1, !.pc = "for"])
    /\ UNCHANGED <<world, phase, ret, descendant_folders,
                   pages_of_record_components, store, trace, loaded, output, report>>

\* folder_traversal: the list is done
DbTraversalReturn ==
    /\ Running("dbquery", "folder_traversal", "for")
    /\ Top.i > Len(Top.acc)
    /\ stack' = Return
    /\ UNCHANGED <<world, phase, page_prefix, ret, descendant_folders,
                   pages_of_record_components, store, trace, loaded, output, report>>

\* get_descendant_folders: the child folders of the root
DbDescendantsRoot ==
    /\ Running("dbquery", "get_descendant_folders", "loop")
    /\ descendant_folders' = <<>>
    /\ stack' = Call([Top EXCEPT !.pc = "recurse"],
                     Frame("get_child_folders", Top.node))
    /\ UNCHANGED <<world, phase, page_prefix, ret,
                   pages_of_record_components, store, trace, loaded, output, report>>

\* get_descendant_folders: recurse(root_folders)
DbDescendantsRecurse ==
    /\ Running("dbquery", "get_descendant_folders", "recurse")
    /\ stack' = Call([Top EXCEPT !.pc = "end"],
                     [Frame("recurse_folders", Top.node) EXCEPT !.acc = ret])
    /\ UNCHANGED <<world, phase, page_prefix, ret, descendant_folders,
                   pages_of_record_components, store, trace, loaded, output, report>>

\* get_descendant_folders: return descendant_folders
DbDescendantsReturn ==
    /\ Running("dbquery", "get_descendant_folders", "end")
    /\ ret' = descendant_folders
    /\ stack' = Return
    /\ UNCHANGED <<world, phase, page_prefix, descendant_folders,
                   pages_of_record_components, store, trace, loaded, output, report>>

\* recurse assigning the folders instead of extending the list by them
DbRecurseFoldersExtend_Assigns ==
    /\ Running("dbquery", "recurse_folders", "loop")
    /\ descendant_folders' = Top.acc
    /\ stack' = Goto([Top EXCEPT !.i = 1, !.pc = "for"])
    /\ UNCHANGED <<world, phase, page_prefix, ret,
                   pages_of_record_components, store, trace, loaded, output, report>>

\* recurse of get_descendant_folders: descendant_folders.extend(folders)
DbRecurseFoldersExtend ==
    /\ Running("dbquery", "recurse_folders", "loop")
    /\ descendant_folders' = descendant_folders \o Top.acc
    /\ stack' = Goto([Top EXCEPT !.i = 1, !.pc = "for"])
    /\ UNCHANGED <<world, phase, page_prefix, ret,
                   pages_of_record_components, store, trace, loaded, output, report>>

\* recurse of get_descendant_folders: the child folders of the next folder
DbRecurseFoldersChild ==
    /\ Running("dbquery", "recurse_folders", "for")
    /\ Top.i <= Len(Top.acc)
    /\ stack' = Call([Top EXCEPT !.pc = "sub"],
                     Frame("get_child_folders", Top.acc[Top.i]))
    /\ UNCHANGED <<world, phase, page_prefix, ret, descendant_folders,
                   pages_of_record_components, store, trace, loaded, output, report>>

\* the subfolders queued behind the folders of the level instead of
\* recursed into
DbRecurseFoldersDescend_Queued ==
    /\ Running("dbquery", "recurse_folders", "sub")
    /\ descendant_folders' = descendant_folders \o ret
    /\ stack' = Goto([Top EXCEPT !.acc = Top.acc \o ret, !.i = Top.i + 1,
                                 !.pc = "for"])
    /\ UNCHANGED <<world, phase, page_prefix, ret,
                   pages_of_record_components, store, trace, loaded, output, report>>

\* recurse of get_descendant_folders: recurse(subfolders)
DbRecurseFoldersDescend ==
    /\ Running("dbquery", "recurse_folders", "sub")
    /\ stack' = Call([Top EXCEPT !.i = Top.i + 1, !.pc = "for"],
                     [Frame("recurse_folders", Top.acc[Top.i]) EXCEPT !.acc = ret])
    /\ UNCHANGED <<world, phase, page_prefix, ret, descendant_folders,
                   pages_of_record_components, store, trace, loaded, output, report>>

\* recurse of get_descendant_folders: the folders are done
DbRecurseFoldersReturn ==
    /\ Running("dbquery", "recurse_folders", "for")
    /\ Top.i > Len(Top.acc)
    /\ stack' = Return
    /\ UNCHANGED <<world, phase, page_prefix, ret, descendant_folders,
                   pages_of_record_components, store, trace, loaded, output, report>>

\* get_child_folders: one page of folders is requested and appended.
\* idx counts the entry-less responses of the loop, which the model follows
\* MaxSpin long (the code has no such bound).
DbChildFoldersPage ==
    /\ Running("dbquery", "get_child_folders", "loop")
    /\ Top.more
    /\ Top.idx < MaxSpin
    /\ LET resp == DbResponse("folders", Top.node, Top.resume)
       IN  /\ trace' = Append(trace, RequestEvent("dbquery", "folders",
                                  Top.node, -1, Top.resume, resp))
           /\ stack' = Goto([Top EXCEPT
                               !.more = resp.isNextPageAvailable,
                               !.resume = resp.resumeAfter,
                               !.acc = Top.acc \o resp.entries,
                               !.idx = IF resp.entries = <<>>
                                       THEN Top.idx + 1 ELSE Top.idx])
    /\ UNCHANGED <<world, phase, page_prefix, ret, descendant_folders,
                   pages_of_record_components, store, loaded, output, report>>

\* get_child_folders: return subfolders
DbChildFoldersReturn ==
    /\ Running("dbquery", "get_child_folders", "loop")
    /\ ~Top.more
    /\ ret' = Top.acc
    /\ stack' = Return
    /\ UNCHANGED <<world, phase, page_prefix, descendant_folders,
                   pages_of_record_components, store, trace, loaded, output, report>>

\* the page of records requested, the token of the loop left as it was
DbRecordsPage_StaleToken ==
    /\ Running("dbquery", "get_pages_of_records", "loop")
    /\ Top.more
    /\ LET resp == DbResponse(DocShape(Top.node), Top.node, Top.resume)
       IN  /\ trace' = Append(trace, RequestEvent("dbquery", "records",
                                  Top.node, -1, Top.resume, resp))
           /\ IF resp.entries = <<>>
              THEN stack' = Goto([Top EXCEPT !.more = FALSE])
              ELSE stack' = Goto([Top EXCEPT
                                    !.more = resp.isNextPageAvailable,
                                    !.entries = resp.entries,
                                    !.pc = "store"])
    /\ UNCHANGED <<world, phase, page_prefix, ret, descendant_folders,
                   pages_of_record_components, store, loaded, output, report>>

\* get_pages_of_records: one page of records is requested and looked at
DbRecordsPage ==
    /\ Running("dbquery", "get_pages_of_records", "loop")
    /\ Top.more
    /\ LET resp == DbResponse(DocShape(Top.node), Top.node, Top.resume)
       IN  /\ trace' = Append(trace, RequestEvent("dbquery", "records",
                                  Top.node, -1, Top.resume, resp))
           /\ IF resp.entries = <<>>
              THEN stack' = Goto([Top EXCEPT !.more = FALSE])
              ELSE stack' = Goto([Top EXCEPT
                                    !.more = resp.isNextPageAvailable,
                                    !.resume = resp.resumeAfter,
                                    !.entries = resp.entries,
                                    !.pc = "store"])
    /\ UNCHANGED <<world, phase, page_prefix, ret, descendant_folders,
                   pages_of_record_components, store, loaded, output, report>>

\* get_pages_of_records: the page is written
DbRecordsStore ==
    /\ Running("dbquery", "get_pages_of_records", "store")
    /\ \E ok \in PutOutcomes :
          StoreObject(ok,
                      store_parent_metadata_page("dbquery", page_prefix, Top.idx,
                                                 Top.entries),
                      WriteEvent("dbquery", "parent", Top.node, Top.idx,
                                 ParentFilename(page_prefix, Top.idx), Top.entries),
                      [Top EXCEPT !.i = 1, !.pc = "for"])
    /\ UNCHANGED <<world, page_prefix, ret, descendant_folders,
                   pages_of_record_components, loaded, report>>

\* get_pages_of_records: the components of the next record of the page
DbRecordsComponents ==
    /\ Running("dbquery", "get_pages_of_records", "for")
    /\ Top.i <= Len(Top.entries)
    /\ stack' = Call([Top EXCEPT !.i = Top.i + 1],
                     Frame("get_pages_of_record_components", Top.entries[Top.i]))
    /\ UNCHANGED <<world, phase, page_prefix, ret, descendant_folders,
                   pages_of_record_components, store, trace, loaded, output, report>>

\* get_pages_of_records: record_page_count += 1
DbRecordsNextPage ==
    /\ Running("dbquery", "get_pages_of_records", "for")
    /\ Top.i > Len(Top.entries)
    /\ stack' = Goto([Top EXCEPT !.idx = Top.idx + 1, !.pc = "loop"])
    /\ UNCHANGED <<world, phase, page_prefix, ret, descendant_folders,
                   pages_of_record_components, store, trace, loaded, output, report>>

\* get_pages_of_records: return record_pages, which nothing was added to
DbRecordsReturn ==
    /\ Running("dbquery", "get_pages_of_records", "loop")
    /\ ~Top.more
    /\ ret' = <<>>
    /\ stack' = Return
    /\ UNCHANGED <<world, phase, page_prefix, descendant_folders,
                   pages_of_record_components, store, trace, loaded, output, report>>

\* one window more than range(0, len(components), batch_size) has steps
\* when the length is a multiple of batch_size
Batches_OneTooMany(components) ==
    [k \in 1..(Len(components) \div batch_size + 1) |->
        SubSeq(components, (k - 1) * batch_size + 1,
               Min(k * batch_size, Len(components)))]

\* for i in range(0, len(components), batch_size): components[i:i+batch_size]
Batches(components) ==
    [k \in 1..((Len(components) + batch_size - 1) \div batch_size) |->
        SubSeq(components, (k - 1) * batch_size + 1,
               Min(k * batch_size, Len(components)))]

\* get_pages_of_record_components: the components of the root record
DbRecordComponentsRoot ==
    /\ Running("dbquery", "get_pages_of_record_components", "loop")
    /\ pages_of_record_components' = <<>>
    /\ stack' = Call([Top EXCEPT !.pc = "recurse"],
                     Frame("get_pages_of_child_components", Top.node))
    /\ UNCHANGED <<world, phase, page_prefix, ret, descendant_folders,
                   store, trace, loaded, output, report>>

\* get_pages_of_record_components: recurse(root_component_pages)
DbRecordComponentsRecurse ==
    /\ Running("dbquery", "get_pages_of_record_components", "recurse")
    /\ stack' = Call([Top EXCEPT !.idx = 0, !.pc = "flush"],
                     [Frame("recurse_pages", Top.node) EXCEPT !.acc = ret])
    /\ UNCHANGED <<world, phase, page_prefix, ret, descendant_folders,
                   pages_of_record_components, store, trace, loaded, output, report>>

\* get_pages_of_record_components: the next collected page is written
DbRecordComponentsStore ==
    /\ Running("dbquery", "get_pages_of_record_components", "flush")
    /\ Top.idx < Len(pages_of_record_components)
    /\ LET page == pages_of_record_components[Top.idx + 1]
       IN  \E ok \in PutOutcomes :
              StoreObject(ok,
                          store_component_metadata_page("dbquery", Top.node,
                                                        Top.idx, page),
                          WriteEvent("dbquery", "children", Top.node, Top.idx,
                                     ComponentFilename(Top.node, Top.idx), page),
                          [Top EXCEPT !.idx = Top.idx + 1])
    /\ UNCHANGED <<world, page_prefix, ret, descendant_folders,
                   pages_of_record_components, loaded, report>>

\* get_pages_of_record_components: all collected pages are written
DbRecordComponentsReturn ==
    /\ Running("dbquery", "get_pages_of_record_components", "flush")
    /\ Top.idx >= Len(pages_of_record_components)
    /\ stack' = Return
    /\ UNCHANGED <<world, phase, page_prefix, ret, descendant_folders,
                   pages_of_record_components, store, trace, loaded, output, report>>

\* the pages of a level put in front of the pages collected so far
DbRecursePagesExtend_Prepends ==
    /\ Running("dbquery", "recurse_pages", "loop")
    /\ pages_of_record_components' = Top.acc \o pages_of_record_components
    /\ stack' = Goto([Top EXCEPT !.i = 1, !.j = 1, !.pc = "for"])
    /\ UNCHANGED <<world, phase, page_prefix, ret, descendant_folders,
                   store, trace, loaded, output, report>>

\* recurse of get_pages_of_record_components: ....extend(pages)
DbRecursePagesExtend ==
    /\ Running("dbquery", "recurse_pages", "loop")
    /\ pages_of_record_components' = pages_of_record_components \o Top.acc
    /\ stack' = Goto([Top EXCEPT !.i = 1, !.j = 1, !.pc = "for"])
    /\ UNCHANGED <<world, phase, page_prefix, ret, descendant_folders,
                   store, trace, loaded, output, report>>

\* recurse of get_pages_of_record_components: the components of the next
\* record of the current page
DbRecursePagesChild ==
    /\ Running("dbquery", "recurse_pages", "for")
    /\ Top.i <= Len(Top.acc)
    /\ Top.j <= Len(Top.acc[Top.i])
    /\ stack' = Call([Top EXCEPT !.pc = "sub"],
                     Frame("get_pages_of_child_components", Top.acc[Top.i][Top.j]))
    /\ UNCHANGED <<world, phase, page_prefix, ret, descendant_folders,
                   pages_of_record_components, store, trace, loaded, output, report>>

\* recurse of get_pages_of_record_components: recurse(child_component_pages)
DbRecursePagesDescend ==
    /\ Running("dbquery", "recurse_pages", "sub")
    /\ stack' = Call([Top EXCEPT !.j = Top.j + 1, !.pc = "for"],
                     [Frame("recurse_pages", Top.node) EXCEPT !.acc = ret])
    /\ UNCHANGED <<world, phase, page_prefix, ret, descendant_folders,
                   pages_of_record_components, store, trace, loaded, output, report>>

\* recurse of get_pages_of_record_components: the next page
DbRecursePagesNextPage ==
    /\ Running("dbquery", "recurse_pages", "for")
    /\ Top.i <= Len(Top.acc)
    /\ Top.j > Len(Top.acc[Top.i])
    /\ stack' = Goto([Top EXCEPT !.i = Top.i + 1, !.j = 1])
    /\ UNCHANGED <<world, phase, page_prefix, ret, descendant_folders,
                   pages_of_record_components, store, trace, loaded, output, report>>

\* recurse of get_pages_of_record_components: the pages are done
DbRecursePagesReturn ==
    /\ Running("dbquery", "recurse_pages", "for")
    /\ Top.i > Len(Top.acc)
    /\ stack' = Return
    /\ UNCHANGED <<world, phase, page_prefix, ret, descendant_folders,
                   pages_of_record_components, store, trace, loaded, output, report>>

\* get_pages_of_child_components: one raw page of components is requested
DbChildComponentsPage ==
    /\ Running("dbquery", "get_pages_of_child_components", "loop")
    /\ Top.more
    /\ LET resp == DbResponse(DocShape(Top.node), Top.node, Top.resume)
       IN  /\ trace' = Append(trace, RequestEvent("dbquery", "components",
                                  Top.node, -1, Top.resume, resp))
           /\ IF resp.entries = <<>>
              THEN stack' = Goto([Top EXCEPT !.more = FALSE])
              ELSE stack' = Goto([Top EXCEPT
                                    !.more = resp.isNextPageAvailable,
                                    !.resume = resp.resumeAfter,
                                    !.acc = Top.acc \o resp.entries])
    /\ UNCHANGED <<world, phase, page_prefix, ret, descendant_folders,
                   pages_of_record_components, store, loaded, output, report>>

\* get_pages_of_child_components: the components are sorted and re-chunked
DbChildComponentsReturn ==
    /\ Running("dbquery", "get_pages_of_child_components", "loop")
    /\ ~Top.more
    /\ ret' = Batches(SortedByPos(Top.acc))
    /\ stack' = Return
    /\ UNCHANGED <<world, phase, page_prefix, descendant_folders,
                   pages_of_record_components, store, trace, loaded, output, report>>

\* main: the Lookup-service fetch returned
MainReturn ==
    /\ Running("dbquery", "fetch", "end")
    /\ phase' = "done"
    /\ stack' = <<>>
    /\ UNCHANGED <<world, page_prefix, ret, descendant_folders,
                   pages_of_record_components, store, trace, loaded, output, report>>

(***************************************************************************)
(* A page request without a success response: raise_for_status raises,     *)
(* the handler of the get_page_of_... method prints and raises again, and  *)
(* nothing between the request and the caller of main catches it.          *)
(***************************************************************************)
\* the query shape of the request the running loop is about to send
RequestShape ==
    CASE Top.fn \in {"folder_traversal", "get_child_folders"} -> "folders"
      [] Top.fn \in {"get_pages_of_documents", "get_pages_of_records"} -> "records"
      [] OTHER -> "components"

\* the running activation is a pagination loop about to send a request
AtRequest ==
    /\ phase \in {"nuxeoapi", "dbquery"}
    /\ stack # <<>>
    /\ Top.pc = "loop"
    /\ Top.more
    /\ \/ /\ phase = "nuxeoapi"
          /\ Top.fn \in {"folder_traversal", "get_pages_of_documents",
                         "get_pages_of_component_documents"}
       \/ /\ phase = "dbquery"
          /\ Top.fn \in {"get_child_folders", "get_pages_of_records",
                         "get_pages_of_child_components"}

\* the failure is printed and the run goes on as behind a last page
raise_for_status_Swallowed ==
    /\ AtRequest
    /\ trace' = Append(trace, FailureEvent(phase, RequestShape, Top.node,
                           IF phase = "nuxeoapi" THEN Top.idx ELSE -1,
                           IF phase = "nuxeoapi" THEN NoToken ELSE Top.resume))
    /\ output' = Append(output, "unable to fetch page")
    /\ stack' = Goto([Top EXCEPT !.more = FALSE])
    /\ UNCHANGED <<world, phase, page_prefix, ret, descendant_folders,
                   pages_of_record_components, store, loaded, report>>

\* response.raise_for_status() raises: print(...), raise(e), main ends
raise_for_status ==
    /\ AtRequest
    /\ trace' = Append(trace, FailureEvent(phase, RequestShape, Top.node,
                           IF phase = "nuxeoapi" THEN Top.idx ELSE -1,
                           IF phase = "nuxeoapi" THEN NoToken ELSE Top.resume))
    /\ output' = Append(output,
                        IF phase = "nuxeoapi" /\ RequestShape = "components"
                        THEN "unable to fetch components"
                        ELSE "unable to fetch page")
    /\ phase' = "failed"
    /\ stack' = <<>>
    /\ UNCHANGED <<world, page_prefix, ret, descendant_folders,
                   pages_of_record_components, store, loaded, report>>

(***************************************************************************)
(* compare.py: the comparison loader.                                      *)
(***************************************************************************)
\* the lines of a text: a line ends behind each line break, and what
\* follows the last line break is a line if it is not empty; a line keeps
\* its line break when keepends
SplitLines(text, keepends) ==
    LET breaks == SelectSeq([i \in 1..Len(text) |-> i], LAMBDA i : text[i] = "\n")
        n == Len(breaks)
        from(k) == IF k = 1 THEN 1 ELSE breaks[k - 1] + 1
        rest == IF n = 0 THEN text ELSE SubSeq(text, breaks[n] + 1, Len(text))
    IN  [k \in 1..n |->
            SubSeq(text, from(k), IF keepends THEN breaks[k] ELSE breaks[k] - 1)]
        \o (IF rest = <<>> THEN <<>> ELSE <<rest>>)

\* f.readlines()
readlines(content) == SplitLines(content, TRUE)

\* response['Body'].iter_lines()
iter_lines(content) == SplitLines(content, FALSE)

\* the artifact names under the key of a method, parents or children
FilesOf(method, children) ==
    {k.name : k \in {x \in DOMAIN store :
                        x.method = method /\ x.children = children}}

Content(method, children, name) ==
    store[[method |-> method, children |-> children, name |-> name]]

\* the sequences that hold each element of the set once
Orders(S) ==
    {o \in [1..Cardinality(S) -> S] :
        \A i, j \in 1..Cardinality(S) : o[i] = o[j] => i = j}

\* list_objects_v2: the keys in ascending byte order
KeyOrder(S) ==
    CHOOSE o \in Orders(S) :
        \A i, j \in 1..Cardinality(S) : i < j => TextLess(o[i], o[j])

\* the records list after the files were read in the order
RecordsRead(method, children, order, keepends) ==
    Flatten([i \in 1..Len(order) |->
                SplitLines(Content(method, children, order[i]), keepends)])

\* if not records: raise Exception(...), else return records
Outcome(records) ==
    IF records = <<>>
    THEN [status |-> "NoDataFound", records |-> <<>>]
    ELSE [status |-> "ok", records |-> records]

\* os.makedirs made the directory of the key when something was written
\* into it or below it
DirectoryExists(method, children) ==
    \E k \in DOMAIN store : k.method = method /\ (children => k.children)

\* every result get_records can have: os.listdir names the files in an
\* arbitrary order and fails on a missing directory, the object store lists
\* its keys in ascending order
get_records_results(method, children) ==
    IF world.scheme = "file"
    THEN IF ~DirectoryExists(method, children)
         THEN {[status |-> "FileNotFoundError", records |-> <<>>]}
         ELSE {Outcome(RecordsRead(method, children, o, TRUE)) :
                  o \in Orders(FilesOf(method, children))}
    ELSE {Outcome(RecordsRead(method, children,
                              KeyOrder(FilesOf(method, children)), FALSE))}

Methods == {"nuxeoapi", "dbquery"}

\* one call of get_records after a run of main
get_records ==
    /\ phase = "done"
    /\ \E method \in Methods, children \in BOOLEAN :
          \E result \in get_records_results(method, children) :
             loaded' = [method |-> method, children |-> children,
                        status |-> result.status, records |-> result.records]
    /\ UNCHANGED <<world, phase, stack, page_prefix, ret, descendant_folders,
                   pages_of_record_components, store, trace, output, report>>

\* print(f"... count: {len(data)}")
CountLine(label, records) ==
    [label |-> label, count |-> Len(records), equal |-> ""]

\* print(f"... data sets equal?: {a == b}")
EqualLine(label, a, b) ==
    [label |-> label, count |-> -1, equal |-> IF a = b THEN "True" ELSE "False"]

\* the three lines main prints about one pair of loaded data sets
ComparedLines(what, a, b) ==
    <<CountLine("nuxeoapi " \o what \o " count", a),
      CountLine("dbquery  " \o what \o " count", b),
      EqualLine(IF what = "parent" THEN "Parent data sets equal?"
                                   ELSE "Child data sets equal?", a, b)>>

\* what main of compare.py has printed and how it ended, given what its
\* four calls of get_records do: the first call that raises ends it
Report(pa, pb, ca, cb) ==
    IF pa.status # "ok" THEN [status |-> pa.status, lines |-> <<>>]
    ELSE IF pb.status # "ok" THEN [status |-> pb.status, lines |-> <<>>]
    ELSE LET parents == ComparedLines("parent", pa.records, pb.records)
         IN  IF ca.status # "ok" THEN [status |-> ca.status, lines |-> parents]
             ELSE IF cb.status # "ok"
                  THEN [status |-> cb.status, lines |-> parents]
                  ELSE [status |-> "ok",
                        lines |-> parents \o ComparedLines("child", ca.records,
                                                           cb.records)]

\* main of compare.py with the query methods of its two sides; two loads of
\* the same key list the same unchanged directory in the same order
Compare(left, right) ==
    /\ phase \in {"done", "failed"}
    /\ \E pa \in get_records_results(left, FALSE),
          ca \in get_records_results(left, TRUE) :
         \E pb \in IF left = right THEN {pa}
                    ELSE get_records_results(right, FALSE),
            cb \in IF left = right THEN {ca}
                    ELSE get_records_results(right, TRUE) :
            report' = Report(pa, pb, ca, cb)
    /\ UNCHANGED <<world, phase, stack, page_prefix, ret, descendant_folders,
                   pages_of_record_components, store, trace, loaded, output>>

\* main of compare.py loading one key per backend
compare_main_PerBackend == Compare("nuxeoapi", "dbquery")

\* main of compare.py after a run of nuxeo_query.py, finished or aborted
compare_main == Compare("nuxeoapi", "nuxeoapi")

(***************************************************************************)
(* The worlds.                                                             *)
(***************************************************************************)
Kinds == {"folder", "record", "component"}

\* folders and records lie in folders, components in records or components,
\* and a parent has a smaller number than its children
TreeOK(kind, parent) ==
    \A i \in DOMAIN kind :
        /\ parent[i] < i
        /\ LET pk == IF parent[i] = 0 THEN "folder" ELSE kind[parent[i]]
           IN  IF kind[i] = "component"
               THEN pk \in {"record", "component"}
               ELSE pk = "folder"

Shapes(n) ==
    {sh \in [kind : [1..n -> Kinds], parent : [1..n -> 0..(IF n = 0 THEN 0 ELSE n - 1)]] :
        TreeOK(sh.kind, sh.parent)}

TreesOfSize(n) ==
    UNION {{[kind |-> sh.kind, parent |-> sh.parent,
             pos |-> [i \in 1..n |-> IF sh.kind[i] = "component" THEN q[i] ELSE 0]] :
               q \in [1..n -> 0..MaxPos]} : sh \in Shapes(n)}

GeneratedTrees == UNION {TreesOfSize(n) : n \in 0..MaxNodes}

\* a folder F0 (1) with the sub-folders F1 (2) and F2 (3), one record in each
TwoSubFolders ==
    [kind |-> <<"folder", "folder", "folder", "record", "record">>,
     parent |-> <<0, 1, 1, 2, 3>>,
     pos |-> <<0, 0, 0, 0, 0>>]

\* no record in the root, one child folder (1) with the records 2 and 3,
\* record 2 with the components 4, 5, 6 at the positions 2, 0, 1
OneFolderThreeComponents ==
    [kind |-> <<"folder", "record", "record", "component", "component", "component">>,
     parent |-> <<0, 1, 1, 2, 2, 2>>,
     pos |-> <<0, 0, 0, 2, 0, 1>>]

\* a record (1) in the root with the components 2, 3, 4 at the positions 5, 1, 3
ThreePositions ==
    [kind |-> <<"record", "component", "component", "component">>,
     parent |-> <<0, 1, 1, 1>>,
     pos |-> <<0, 5, 1, 3>>]

\* the records 1 and 2 in the root, a folder (3) with the record 4, and one
\* component for each of the records 1 and 4
TwoFoldersTwoPages ==
    [kind |-> <<"record", "record", "folder", "record", "component", "component">>,
     parent |-> <<0, 0, 0, 3, 1, 4>>,
     pos |-> <<0, 0, 0, 0, 0, 0>>]

\* a folder (1) with a record (2) that has n components
ManyComponents(n) ==
    [kind |-> [i \in 1..(n + 2) |->
                 IF i = 1 THEN "folder" ELSE IF i = 2 THEN "record" ELSE "component"],
     parent |-> [i \in 1..(n + 2) |-> IF i = 1 THEN 0 ELSE IF i = 2 THEN 1 ELSE 2],
     pos |-> [i \in 1..(n + 2) |-> IF i <= 2 THEN 0 ELSE (i * 3) % 7]]

World(tree, page, scheme, anomaly, folderScope) ==
    [kind |-> tree.kind, parent |-> tree.parent, pos |-> tree.pos,
     page |-> page, scheme |-> scheme, anomaly |-> anomaly,
     folderScope |-> folderScope, putFails |-> FALSE, repeat |-> FALSE]

Schemes == {"file", "s3"}

Anomalies == {"none", "folders", "records", "components"}

SmallWorlds(scopes) ==
    {World(t, page, scheme, anomaly, scope) :
        t \in GeneratedTrees, page \in 1..SmallPage, scheme \in Schemes,
        anomaly \in Anomalies, scope \in scopes}

ScenarioWorlds ==
    {World(t, ApiPageSize, scheme, "none", "ancestor") :
        t \in {TwoSubFolders, OneFolderThreeComponents}, scheme \in Schemes}
    \cup {World(ThreePositions, SmallPage, scheme, "none", "ancestor") :
             scheme \in Schemes}
    \cup {World(TwoFoldersTwoPages, 1, scheme, anomaly, "ancestor") :
             scheme \in Schemes, anomaly \in Anomalies}

\* the numbers of components at and around the multiples of batch_size
BatchSizes ==
    {n \in 0..MaxComponents : n % batch_size \in {0, 1, 2, 50, batch_size - 1}}

BatchWorlds ==
    {World(ManyComponents(n), ApiPageSize, scheme, "none", "ancestor") :
        n \in BatchSizes, scheme \in Schemes}

\* the state at the start of main, in a world
Start(worlds) ==
    /\ world \in worlds
    /\ phase = "nuxeoapi"
    /\ stack = <<Frame("fetch", 0)>>
    /\ page_prefix = <<>>
    /\ ret = <<>>
    /\ descendant_folders = <<>>
    /\ pages_of_record_components = <<>>
    /\ store = <<>>
    /\ trace = <<>>
    /\ loaded = [method |-> "", children |-> FALSE, status |-> "", records |-> <<>>]
    /\ output = <<"Fetching data via Nuxeo API">>
    /\ report = [status |-> "", lines |-> <<>>]

Init == Start(SmallWorlds({"ancestor"}) \cup ScenarioWorlds)

Next ==
    \/ ApiFetchDocuments \/ ApiFetchFolders
    \/ ApiFolderPage \/ ApiFolderEnter \/ ApiFolderLeave
    \/ ApiFolderNextPage \/ ApiFolderReturn
    \/ ApiDocumentsPage \/ ApiDocumentsStore \/ ApiDocumentsComponents
    \/ ApiDocumentsNextPage \/ ApiDocumentsReturn
    \/ ApiComponentsPage \/ ApiComponentsStore \/ ApiComponentsReturn
    \/ MainRunDbQuery
    \/ DbFetchRecords \/ DbFetchFolders
    \/ DbTraversalDiscover \/ DbTraversalCollect \/ DbTraversalEnter
    \/ DbTraversalLeave \/ DbTraversalReturn
    \/ DbDescendantsRoot \/ DbDescendantsRecurse \/ DbDescendantsReturn
    \/ DbRecurseFoldersExtend \/ DbRecurseFoldersChild
    \/ DbRecurseFoldersDescend \/ DbRecurseFoldersReturn
    \/ DbChildFoldersPage \/ DbChildFoldersReturn
    \/ DbRecordsPage \/ DbRecordsStore \/ DbRecordsComponents
    \/ DbRecordsNextPage \/ DbRecordsReturn
    \/ DbRecordComponentsRoot \/ DbRecordComponentsRecurse
    \/ DbRecordComponentsStore \/ DbRecordComponentsReturn
    \/ DbRecursePagesExtend \/ DbRecursePagesChild \/ DbRecursePagesDescend
    \/ DbRecursePagesNextPage \/ DbRecursePagesReturn
    \/ DbChildComponentsPage \/ DbChildComponentsReturn
    \/ MainReturn
    \/ raise_for_status
    \/ get_records
    \/ compare_main

Spec == Init /\ [][Next]_vars

\* the same runs, and those against an API backend whose folder query
\* matches the immediate child folders only
InitScope == Start(SmallWorlds({"ancestor", "parent"}) \cup ScenarioWorlds)

SpecScope == InitScope /\ [][Next]_vars

\* the runs with an object store that may reject any write
StorageWorlds ==
    {[World(t, page, "s3", "none", "ancestor") EXCEPT !.putFails = TRUE] :
        t \in GeneratedTrees \cup {TwoFoldersTwoPages}, page \in 1..SmallPage}

InitStorage == Start(StorageWorlds)

SpecStorage == InitStorage /\ [][Next]_vars

\* the runs against backends that list the records of a folder twice, the
\* second time in reverse, SmallPage entries on a page
RepeatWorlds ==
    {[World(t, SmallPage, scheme, "none", "ancestor") EXCEPT !.repeat = TRUE] :
        t \in GeneratedTrees, scheme \in Schemes}

InitRepeat == Start(RepeatWorlds)

SpecRepeat == InitRepeat /\ [][Next]_vars

\* the runs over a record with many components
InitBatch == Start(BatchWorlds)

SpecBatch == InitBatch /\ [][Next]_vars

(***************************************************************************)
(* What the log says.                                                      *)
(***************************************************************************)
Shapes3 == {"folders", "records", "components"}

Nodes == 0..NodeCount

\* the page requests of the loop of a method and shape over a parent
RequestsOf(method, shape, uid) ==
    SelectSeq(trace, LAMBDA e : e.ev = "request" /\ e.method = method
                                /\ e.shape = shape /\ e.uid = uid)

\* the artifact writes of a method, parents ("parent") or components ("children")
WritesOf(method, shape) ==
    SelectSeq(trace, LAMBDA e : e.ev = "write" /\ e.method = method
                                /\ e.shape = shape)

\* the artifact writes of a method for one folder or one record
WritesFor(method, shape, uid) ==
    SelectSeq(WritesOf(method, shape), LAMBDA e : e.uid = uid)

\* the fetch of the method has returned
Finished(method) ==
    IF method = "nuxeoapi" THEN phase \in {"dbquery", "done"} ELSE phase = "done"

\* the number of pages a backend cuts n entries into
PageCount(n) == (n + world.page - 1) \div world.page

\* the k-th page of a listing
PageOf(listing, k) ==
    SubSeq(listing, (k - 1) * world.page + 1, Min(k * world.page, Len(listing)))

\* the loops that write each page they receive as one artifact
WritesItsPages(method, shape) ==
    shape = "records" \/ (shape = "components" /\ method = "nuxeoapi")

WriteShape(shape) == IF shape = "records" THEN "parent" ELSE "children"

(***************************************************************************)
(* C1: a pagination loop whose backend answers with N >= 1 non-empty pages, *)
(* has_more true on the first N-1 and false on the N-th, issues exactly N  *)
(* page requests, receives exactly those N pages in order (and, where the  *)
(* loop writes its pages, writes exactly those N), and issues no further   *)
(* request.  Holds for the folder, record and component loops of both      *)
(* crawlers.                                                               *)
(***************************************************************************)
C1_ExactlyNPages ==
    \A method \in Methods, shape \in Shapes3, uid \in Nodes :
        LET R == RequestsOf(method, shape, uid)
            L == Listing(method, shape, uid)
            N == PageCount(Len(L))
            W == WritesFor(method, WriteShape(shape), uid)
        IN  (world.anomaly # shape /\ L # <<>> /\ R # <<>>) =>
              /\ Len(R) <= N
              /\ \A k \in 1..Len(R) :
                    /\ R[k].entries = PageOf(L, k)
                    /\ R[k].more = (k < N)
              /\ Finished(method) => Len(R) = N
              /\ (Finished(method) /\ WritesItsPages(method, shape)) =>
                    /\ Len(W) = N
                    /\ \A k \in 1..N : W[k].entries = PageOf(L, k)

\* a finished run in which a loop of each crawler went through two pages
C1_Witness ==
    /\ phase = "done"
    /\ world.anomaly = "none"
    /\ \A method \in Methods :
          \E shape \in Shapes3, uid \in Nodes :
             LET R == RequestsOf(method, shape, uid)
             IN  Len(R) >= 2 /\ ~R[Len(R)].more /\ R[Len(R)].entries # <<>>

(***************************************************************************)
(* C2: in every pagination loop, the Lookup-service folder listing         *)
(* included, a response with has_more = true and no entries ends the loop: *)
(* no further page request is issued for the same parent.                  *)
(***************************************************************************)
C2_AnomalyEndsLoop ==
    \A method \in Methods, shape \in Shapes3, uid \in Nodes :
        LET R == RequestsOf(method, shape, uid)
        IN  \A k \in 1..Len(R) :
               (R[k].more /\ R[k].entries = <<>>) => k = Len(R)

(***************************************************************************)
(* C3: in one crawl every artifact file name is written at most once, so   *)
(* distinct folders, distinct (folder, record page) pairs and distinct     *)
(* (record, component page) pairs have distinct names, and every artifact  *)
(* written is still stored with the content it was written with.           *)
(***************************************************************************)
C3_WrittenOnce ==
    \A method \in Methods, shape \in {"parent", "children"} :
        LET W == WritesOf(method, shape)
        IN  /\ \A a, b \in 1..Len(W) :
                  (W[a].name = W[b].name
                   \/ (W[a].uid = W[b].uid /\ W[a].index = W[b].index)) => a = b
            /\ \A a \in 1..Len(W) :
                  LET key == [method |-> method, children |-> shape = "children",
                              name |-> W[a].name]
                  IN  key \in DOMAIN store /\ store[key] = Jsonl(W[a].entries)

\* a finished run in which both crawlers wrote two pages for one folder,
\* pages for two folders and component pages for two records
C3_Witness ==
    /\ phase = "done"
    /\ \A method \in Methods :
          /\ \E a, b \in 1..Len(WritesOf(method, "parent")) :
                LET W == WritesOf(method, "parent")
                IN  W[a].uid = W[b].uid /\ W[a].index # W[b].index
          /\ \E a, b \in 1..Len(WritesOf(method, "parent")) :
                LET W == WritesOf(method, "parent")
                IN  W[a].uid # W[b].uid
          /\ \E a, b \in 1..Len(WritesOf(method, "children")) :
                LET W == WritesOf(method, "children")
                IN  W[a].uid # W[b].uid

(***************************************************************************)
(* C4: each crawler requests the first record page of the root and of      *)
(* every descendant folder exactly once, and every record of the tree is   *)
(* in exactly one stored parent artifact of the crawler.                   *)
(***************************************************************************)
FolderNodes == {n \in Nodes : KindOf(n) = "folder"}

RecordNodes == {n \in Nodes : KindOf(n) = "record"}

\* the requests that start the record loop of a folder
FirstRecordRequests(method, folder) ==
    SelectSeq(RequestsOf(method, "records", folder),
              LAMBDA e : IF method = "nuxeoapi" THEN e.index = 0
                         ELSE e.token = EmptyToken)

\* the stored parent artifacts of the method with a line for the record
ArtifactsWith(method, record) ==
    {k \in DOMAIN store :
        /\ k.method = method
        /\ ~k.children
        /\ \E i \in 1..Len(iter_lines(store[k])) :
              iter_lines(store[k])[i] = Dumps(record)}

EveryFolderAndRecordOnce(method) ==
    /\ \A f \in FolderNodes : Len(FirstRecordRequests(method, f)) = 1
    /\ \A r \in RecordNodes : Cardinality(ArtifactsWith(method, r)) = 1

\* C4 as stated: with folder queries that match the immediate child folders
C4_ImmediateChildren ==
    \A method \in Methods :
        (Finished(method) /\ world.folderScope = "parent"
         /\ world.anomaly = "none") =>
            EveryFolderAndRecordOnce(method)

\* C4 amended: with the API folder query matching every folder below the
\* root (ecm:ancestorId) and the Lookup-service folder query matching the
\* immediate child folders
C4_EveryFolderOnce ==
    \A method \in Methods :
        (Finished(method) /\ world.folderScope = "ancestor") =>
            EveryFolderAndRecordOnce(method)

\* a finished run over a tree with a record in a folder of a folder
C4_Witness ==
    /\ phase = "done"
    /\ world.folderScope = "ancestor"
    /\ \E r \in RecordNodes :
          ParentOf(r) # 0 /\ ParentOf(ParentOf(r)) # 0

InTree(tree) ==
    world.kind = tree.kind /\ world.parent = tree.parent /\ world.pos = tree.pos

HasPrefix(text, prefix) ==
    Len(text) >= Len(prefix) /\ SubSeq(text, 1, Len(prefix)) = prefix

(***************************************************************************)
(* C5: API variant, a root with one folder F0 that holds the sub-folders   *)
(* F1 and F2 with one record each: the crawl writes one record page for F1 *)
(* and one for F2, under different names that both start with r-fp0-.      *)
(***************************************************************************)
C5_SubFolderLoci ==
    (InTree(TwoSubFolders) /\ Finished("nuxeoapi")) =>
        LET W1 == WritesFor("nuxeoapi", "parent", 2)
            W2 == WritesFor("nuxeoapi", "parent", 3)
        IN  /\ Len(W1) = 1 /\ W1[1].entries = <<4>>
            /\ Len(W2) = 1 /\ W2[1].entries = <<5>>
            /\ W1[1].name # W2[1].name
            /\ HasPrefix(W1[1].name, <<"r", "-", "f", "p", "0", "-">>)
            /\ HasPrefix(W2[1].name, <<"r", "-", "f", "p", "0", "-">>)

\* the API crawl of that tree has returned, with both pages written
C5_Witness ==
    /\ InTree(TwoSubFolders)
    /\ Finished("nuxeoapi")
    /\ Len(WritesOf("nuxeoapi", "parent")) = 2

(***************************************************************************)
(* C6: API variant, a root without records and one child folder with two   *)
(* records, one of which has three components at the positions 2, 0, 1:    *)
(* the artifacts written are exactly the parent page r-fp0-f0-p0.jsonl     *)
(* with the two records in backend order and the component page            *)
(* {uid}-p0.jsonl under children with the components in the order of      *)
(* positions 0, 1, 2.                                                      *)
(***************************************************************************)
C6_ScenarioArtifacts ==
    (InTree(OneFolderThreeComponents) /\ Finished("nuxeoapi")) =>
        LET parentKey == [method |-> "nuxeoapi", children |-> FALSE,
                          name |-> <<"r", "-", "f", "p", "0", "-", "f", "0", "-",
                                     "p", "0", ".", "j", "s", "o", "n", "l">>]
            childKey == [method |-> "nuxeoapi", children |-> TRUE,
                         name |-> <<"u", "2", "-", "p", "0",
                                    ".", "j", "s", "o", "n", "l">>]
        IN  /\ {k \in DOMAIN store : k.method = "nuxeoapi"} = {parentKey, childKey}
            /\ iter_lines(store[parentKey]) = <<Dumps(2), Dumps(3)>>
            /\ iter_lines(store[childKey]) = <<Dumps(5), Dumps(6), Dumps(4)>>
            /\ Len(WritesOf("nuxeoapi", "parent")) = 1
            /\ Len(WritesOf("nuxeoapi", "children")) = 1

\* the API crawl of that tree has returned
C6_Witness ==
    /\ InTree(OneFolderThreeComponents)
    /\ Finished("nuxeoapi")
    /\ PosOf(5) = 0 /\ PosOf(6) = 1 /\ PosOf(4) = 2
    /\ Cardinality(DOMAIN store) >= 2

(***************************************************************************)
(* The rebatcher, get_pages_of_child_components, has just returned to one  *)
(* of its two callers; ret holds its batches.                              *)
(***************************************************************************)
JustRebatched ==
    \/ Running("dbquery", "get_pages_of_record_components", "recurse")
    \/ Running("dbquery", "recurse_pages", "sub")

\* the record or component whose components were rebatched
RebatchedRecord ==
    IF Top.fn = "recurse_pages" THEN Top.acc[Top.i][Top.j] ELSE Top.node

\* the components the raw pages of the Lookup service held, in fetch order
FetchedComponents(record) ==
    LET R == RequestsOf("dbquery", "components", record)
    IN  Flatten([k \in 1..Len(R) |-> R[k].entries])

IndexIn(s, x) == CHOOSE i \in DOMAIN s : s[i] = x

(***************************************************************************)
(* C7: Lookup-service variant: the concatenation of the batches the        *)
(* rebatcher emits for a record is a permutation of all the components     *)
(* fetched for it, ascending by position, components of equal position in  *)
(* the order they were fetched.                                            *)
(***************************************************************************)
C7_SortedStable ==
    JustRebatched =>
        LET out == Flatten(ret)
            in == FetchedComponents(RebatchedRecord)
        IN  /\ Len(out) = Len(in)
            /\ Range(out) = Range(in)
            /\ \A a, b \in 1..Len(out) :
                  a < b =>
                     /\ PosOf(out[a]) <= PosOf(out[b])
                     /\ PosOf(out[a]) = PosOf(out[b]) =>
                           IndexIn(in, out[a]) < IndexIn(in, out[b])

\* the components at the positions 5, 1, 3 came in two raw pages and are
\* emitted in the order of the positions 1, 3, 5
C7_Witness ==
    /\ InTree(ThreePositions)
    /\ JustRebatched
    /\ RebatchedRecord = 1
    /\ Len(RequestsOf("dbquery", "components", 1)) = 2
    /\ FetchedComponents(1) = <<2, 3, 4>>
    /\ Flatten(ret) = <<3, 4, 2>>

(***************************************************************************)
(* C8: Lookup-service variant: the n >= 0 components of a record are       *)
(* re-chunked into exactly ceil(n / 100) batches: every batch but the last *)
(* holds 100 components, the last between 1 and 100, none is empty, and    *)
(* n = 0 gives no batch.                                                   *)
(***************************************************************************)
C8_BatchSizes ==
    JustRebatched =>
        LET n == Len(FetchedComponents(RebatchedRecord))
            k == Len(ret)
        IN  /\ k * 100 >= n
            /\ (k - 1) * 100 < n
            /\ \A b \in 1..k : Len(ret[b]) = IF b < k THEN 100 ELSE n - (k - 1) * 100
            /\ \A b \in 1..k : Len(ret[b]) >= 1 /\ Len(ret[b]) <= 100
            /\ n = 0 => ret = <<>>
            /\ Len(Flatten(ret)) = n

\* 250 components were re-chunked into batches of 100, 100 and 50
C8_Witness ==
    /\ JustRebatched
    /\ Len(FetchedComponents(RebatchedRecord)) = 250
    /\ Len(ret) = 3
    /\ Len(ret[1]) = 100 /\ Len(ret[2]) = 100 /\ Len(ret[3]) = 50

(***************************************************************************)
(* The artifacts written under the key that was loaded last, and the lines *)
(* the loader gives for what was written.                                  *)
(***************************************************************************)
Loaded == loaded.method # ""

LoadedWrites ==
    WritesOf(loaded.method, IF loaded.children THEN "children" ELSE "parent")

\* the serialization of each record passed to the writer
DumpedLines(records) == [i \in 1..Len(records) |-> Dumps(records[i])]

\* a loaded line without the line break at its end
WithoutBreak(line) ==
    IF line # <<>> /\ line[Len(line)] = "\n"
    THEN SubSeq(line, 1, Len(line) - 1) ELSE line

(***************************************************************************)
(* C9 as stated: loading the key of a written artifact returns exactly the *)
(* record sequence passed to the writer, line for line, also when the key  *)
(* holds more than one artifact (lines compared without their line break). *)
(***************************************************************************)
C9_ExactlyWritten ==
    Loaded =>
        \A a \in 1..Len(LoadedWrites) :
            [i \in 1..Len(loaded.records) |-> WithoutBreak(loaded.records[i])]
              = DumpedLines(LoadedWrites[a].entries)

(***************************************************************************)
(* C9 amended: loading a key returns the concatenation, in the listing     *)
(* order of the store (ascending names for the object store), of the       *)
(* record sequences of all artifacts written under the key: one line per   *)
(* record, in the order passed to the writer, each line the serialization  *)
(* of its record, followed by a line break under the file scheme and       *)
(* without it under the object store.  With one artifact under the key     *)
(* that is exactly the sequence written.                                   *)
(***************************************************************************)
C9_RoundTrip ==
    (Loaded /\ LoadedWrites # <<>>) =>
        LET W == LoadedWrites
            end == IF world.scheme = "file" THEN <<"\n">> ELSE <<>>
            lines(w) == [i \in 1..Len(w.entries) |-> Dumps(w.entries[i]) \o end]
        IN  /\ loaded.status = "ok"
            /\ \E o \in Orders(1..Len(W)) :
                  /\ loaded.records = Flatten([k \in 1..Len(W) |-> lines(W[o[k]])])
                  /\ world.scheme = "s3" =>
                        \A k \in 1..(Len(W) - 1) :
                            TextLess(W[o[k]].name, W[o[k + 1]].name)

\* a key with two artifacts, one of them with two records, was loaded from
\* files
C9_Witness ==
    /\ Loaded
    /\ world.scheme = "file"
    /\ loaded.status = "ok"
    /\ Len(LoadedWrites) = 2
    /\ \E a \in 1..2 : Len(LoadedWrites[a].entries) = 2

(***************************************************************************)
(* C10: after both crawlers ran over the same tree, loading the artifacts  *)
(* of the API variant and those of the Lookup-service variant gives equal  *)
(* record counts and equal record sequences, for the parent artifacts and  *)
(* for the component artifacts (for some listing order of the files, where *)
(* the store leaves the order open).                                       *)
(***************************************************************************)
C10_CrossBackendEqual ==
    (phase = "done" /\ world.anomaly = "none") =>
        \A children \in BOOLEAN :
            \E a \in get_records_results("nuxeoapi", children),
               b \in get_records_results("dbquery", children) :
                /\ Len(a.records) = Len(b.records)
                /\ a = b

(***************************************************************************)
(* C11: when no artifact exists under the key that is loaded, also when    *)
(* the storage location of the key does not exist, get_records fails with  *)
(* the NoDataFound error (the exception naming the collection and the      *)
(* store location), and it never returns an empty sequence.                *)
(***************************************************************************)
C11_NoDataFound ==
    Loaded =>
        /\ FilesOf(loaded.method, loaded.children) = {}
              => loaded.status = "NoDataFound"
        /\ loaded.status = "ok" => loaded.records # <<>>

\* the key an artifact of a write is stored under
ArtifactKey(w) ==
    [method |-> w.method, children |-> (w.shape = "children"), name |-> w.name]

(***************************************************************************)
(* C12: when a page request of a crawl fails, the crawl aborts.  The       *)
(* failed request is the last thing the run did (no further page request,  *)
(* no further artifact write), main has ended with the failure (nothing    *)
(* caught it, the other fetcher is not run after it), and the store holds  *)
(* exactly the artifacts written before the failure, with the content      *)
(* written.                                                                *)
(***************************************************************************)
C12_FailureAborts ==
    /\ \A i \in DOMAIN trace :
          trace[i].ev = "failure" =>
              /\ i = Len(trace)
              /\ phase = "failed"
              /\ stack = <<>>
              /\ DOMAIN store =
                    {ArtifactKey(trace[j]) :
                        j \in {k \in 1..(i - 1) : trace[k].ev = "write"}}
              /\ \A j \in 1..(i - 1) :
                    trace[j].ev = "write" =>
                        store[ArtifactKey(trace[j])] = Jsonl(trace[j].entries)
    /\ phase = "failed" => (trace # <<>> /\ trace[Len(trace)].ev = "failure")

\* a request of the Lookup-service fetcher failed after both fetchers had
\* written parent and component artifacts
C12_Witness ==
    /\ phase = "failed"
    /\ trace[Len(trace)].method = "dbquery"
    /\ WritesOf("nuxeoapi", "parent") # <<>>
    /\ WritesOf("nuxeoapi", "children") # <<>>
    /\ WritesOf("dbquery", "parent") # <<>>
    /\ WritesOf("dbquery", "children") # <<>>

\* the artifact writes a method tried for one folder or one record, those
\* the store rejected included
Attempts(method, shape, uid) ==
    SelectSeq(trace, LAMBDA e : e.ev \in {"write", "lost"} /\ e.method = method
                                /\ e.shape = shape /\ e.uid = uid)

\* the step is a write that the object store rejected
LostStep ==
    /\ trace' # trace
    /\ trace'[Len(trace')].ev = "lost"

(***************************************************************************)
(* C13: a failed write to the object store does not abort the crawl.  The  *)
(* step of the failed write changes neither the store nor the place of the *)
(* crawl in its call chain, and the run does not end with it; every loop   *)
(* sends the requests and tries the writes it sends and tries when no      *)
(* write fails (one per page of its listing, in order); and the store      *)
(* holds exactly the artifacts whose write succeeded, with the content     *)
(* written: the failed artifacts are missing and nothing else differs.     *)
(***************************************************************************)
C13_WriteFailureNonFatal ==
    /\ [](/\ phase = "failed" => trace[Len(trace)].ev = "failure"
          /\ DOMAIN store =
                {ArtifactKey(trace[i]) : i \in {k \in DOMAIN trace : trace[k].ev = "write"}}
          /\ \A i \in DOMAIN trace :
                /\ trace[i].ev = "write" =>
                      store[ArtifactKey(trace[i])] = Jsonl(trace[i].entries)
                /\ trace[i].ev = "lost" => ArtifactKey(trace[i]) \notin DOMAIN store
          /\ \A method \in Methods, shape \in Shapes3, uid \in Nodes :
                LET R == RequestsOf(method, shape, uid)
                    L == Listing(method, shape, uid)
                    N == PageCount(Len(L))
                    A == Attempts(method, WriteShape(shape), uid)
                IN  (Finished(method) /\ L # <<>> /\ R # <<>>) =>
                      /\ Len(R) = N
                      /\ \A k \in 1..N : R[k].entries = PageOf(L, k)
                      /\ WritesItsPages(method, shape) =>
                            /\ Len(A) = N
                            /\ \A k \in 1..N :
                                  /\ A[k].entries = PageOf(L, k)
                                  /\ A[k].index = k - 1)
    /\ [][LostStep =>
            /\ store' = store
            /\ phase' = phase
            /\ Len(stack') = Len(stack)
            /\ stack'[Len(stack')].fn = Top.fn
            /\ page_prefix' = page_prefix]_vars

\* both crawls completed although the store rejected a parent page and a
\* component page of each of them, and kept others
C13_Witness ==
    /\ phase = "done"
    /\ \A method \in Methods, shape \in {"parent", "children"} :
          \E i \in DOMAIN trace :
             trace[i].ev = "lost" /\ trace[i].method = method /\ trace[i].shape = shape
    /\ DOMAIN store # {}

\* the step receives a response with has_more = true and no entries
AnomalyStep ==
    /\ Len(trace') = Len(trace) + 1
    /\ LET e == trace'[Len(trace')]
       IN  e.ev = "request" /\ e.more /\ e.entries = <<>>

(***************************************************************************)
(* C14: whenever a pagination loop receives a response with has_more =     *)
(* true and no entries, the anomaly is logged (the step prints a line) and *)
(* no error is raised: the crawl goes on.                                  *)
(***************************************************************************)
C14_AnomalyLogged ==
    [][AnomalyStep =>
          /\ output' # output
          /\ phase' = phase
          /\ stack' # <<>>]_vars

\* the event is a page request, answered or failed
IsRequest(e) == e.ev \in {"request", "failure"}

\* the event of the API variant belongs to the folder's own records: a
\* request or a write of a record page of the folder, or of a component
\* page of a record of the folder
OwnRecordWork(e, folder) ==
    /\ e.method = "nuxeoapi"
    /\ \/ e.shape \in {"records", "parent"} /\ e.uid = folder
       \/ /\ e.shape \in {"components", "children"}
          /\ e.uid # 0
          /\ ParentOf(e.uid) = folder

(***************************************************************************)
(* C15: in the API variant, everything the crawler does for a folder's own *)
(* records (the requests and writes of its record pages and of the         *)
(* component pages of its records) comes before any request for the        *)
(* child-folder page of that folder; and the parent artifact of a record   *)
(* page is written before any component request for a record of the page.  *)
(***************************************************************************)
C15_RecordsBeforeFolders ==
    /\ \A j \in DOMAIN trace :
          (IsRequest(trace[j]) /\ trace[j].method = "nuxeoapi"
           /\ trace[j].shape = "folders") =>
              \A i \in DOMAIN trace :
                  OwnRecordWork(trace[i], trace[j].uid) => i < j
    /\ \A i \in DOMAIN trace :
          (IsRequest(trace[i]) /\ trace[i].method = "nuxeoapi"
           /\ trace[i].shape = "components") =>
              \E p \in 1..(i - 1) :
                  /\ trace[p].ev = "write"
                  /\ trace[p].method = "nuxeoapi"
                  /\ trace[p].shape = "parent"
                  /\ trace[i].uid \in Range(trace[p].entries)

\* the API crawl of a root with two record pages, components and a folder
\* with a record has returned
C15_Witness ==
    /\ Finished("nuxeoapi")
    /\ Len(WritesFor("nuxeoapi", "parent", 0)) >= 2
    /\ WritesOf("nuxeoapi", "children") # <<>>
    /\ \E uid \in Nodes : uid # 0 /\ WritesFor("nuxeoapi", "parent", uid) # <<>>
    /\ RequestsOf("nuxeoapi", "folders", 0) # <<>>

\* the folder-listing requests of the Lookup-service variant, in order
DbFolderRequests ==
    SelectSeq(trace, LAMBDA e : IsRequest(e) /\ e.method = "dbquery"
                                /\ e.shape = "folders")

\* n is the folder a or lies below it
InSubtree(n, a) == n = a \/ IsUnder(n, a)

(***************************************************************************)
(* C16: in the Lookup-service variant folder discovery is depth-first and  *)
(* comes first.  Between the folder-listing request of a folder and a      *)
(* later folder-listing request inside its subtree there are only          *)
(* folder-listing requests of that subtree (so the whole subtree of a      *)
(* folder is listed before its next sibling); a finished crawl has listed  *)
(* every folder; and after the first record request for a folder other     *)
(* than the root no folder-listing request follows.                        *)
(***************************************************************************)
C16_DiscoveryFirst ==
    /\ LET F == DbFolderRequests
       IN  \A a, b, c \in DOMAIN F :
              (a < b /\ b < c /\ InSubtree(F[c].uid, F[a].uid))
                  => InSubtree(F[b].uid, F[a].uid)
    /\ phase = "done" =>
          \A n \in Nodes :
              KindOf(n) = "folder" => RequestsOf("dbquery", "folders", n) # <<>>
    /\ \A i, j \in DOMAIN trace :
          (/\ IsRequest(trace[i]) /\ trace[i].method = "dbquery"
           /\ trace[i].shape = "records" /\ trace[i].uid # 0
           /\ IsRequest(trace[j]) /\ trace[j].method = "dbquery"
           /\ trace[j].shape = "folders") => j < i

\* a finished crawl of the folders 1 and 2 in the root and 3 in folder 1:
\* the listings were requested for the root, 1, 3, 2
C16_Witness ==
    /\ phase = "done"
    /\ [k \in DOMAIN DbFolderRequests |-> DbFolderRequests[k].uid] = <<0, 1, 3, 2>>
    /\ \A n \in 1..3 : RequestsOf("dbquery", "records", n) # <<>>

\* the responses with entries that the record loop of a folder received
NonEmptyResponses(method, folder) ==
    SelectSeq(RequestsOf(method, "records", folder), LAMBDA e : e.entries # <<>>)

(***************************************************************************)
(* C17: for every folder and both variants, the parent artifact written    *)
(* with page index k holds exactly the entries of the k-th response with   *)
(* entries for that folder (k from 0), in the order of the response and    *)
(* with the entries it holds more than once; the page indices of the       *)
(* artifacts of a folder are 0, 1, 2, ... without a gap; a finished crawl  *)
(* has written one artifact for every such response.                       *)
(***************************************************************************)
C17_PageHoldsResponse ==
    \A method \in Methods, folder \in Nodes :
        KindOf(folder) = "folder" =>
            LET NE == NonEmptyResponses(method, folder)
                W == WritesFor(method, "parent", folder)
            IN  /\ Len(W) <= Len(NE)
                /\ Len(NE) <= Len(W) + 1
                /\ Finished(method) => Len(W) = Len(NE)
                /\ \A k \in 1..Len(W) :
                      /\ W[k].index = k - 1
                      /\ W[k].entries = NE[k].entries
                      /\ store[ArtifactKey(W[k])] = Jsonl(NE[k].entries)

\* both crawls have finished over a folder whose two records the backend
\* listed twice: page 0 holds them as <<1, 2>> and page 1 holds them again,
\* in the descending order of the response
C17_Witness ==
    /\ phase = "done"
    /\ \A method \in Methods :
          \E folder \in Nodes :
              /\ Len(WritesFor(method, "parent", folder)) = 2
              /\ WritesFor(method, "parent", folder)[1].entries = <<1, 2>>
              /\ WritesFor(method, "parent", folder)[2].entries = <<2, 1>>
              /\ WritesFor(method, "parent", folder)[2].index = 1

\* the requests a paging loop has sent, answered or not, in order
Sent(method, shape, uid) ==
    SelectSeq(trace, LAMBDA e : IsRequest(e) /\ e.method = method
                                /\ e.shape = shape /\ e.uid = uid)

(***************************************************************************)
(* C18: the cursor of a paging loop.  API variant: the j-th request of a   *)
(* loop (j from 0) carries the page index j and no token.  Lookup-service  *)
(* variant: the first request of a loop carries the empty token, every     *)
(* later one exactly the resumeAfter of the response before it in the same *)
(* loop, and no page index is sent.                                        *)
(***************************************************************************)
C18_CursorProtocol ==
    \A shape \in Shapes3, uid \in Nodes :
        /\ LET S == Sent("nuxeoapi", shape, uid)
           IN  \A j \in 1..Len(S) :
                   S[j].index = j - 1 /\ S[j].token = NoToken
        /\ LET S == Sent("dbquery", shape, uid)
           IN  \A j \in 1..Len(S) :
                   /\ S[j].index = -1
                   /\ S[j].token = IF j = 1 THEN EmptyToken ELSE S[j - 1].next

\* both crawls have finished, a record loop of the API variant has sent the
\* page indices 0 and 1, and a record loop of the Lookup-service variant
\* has sent the empty token and then the token of its first response
C18_Witness ==
    /\ phase = "done"
    /\ \E uid \in Nodes :
          /\ Len(Sent("nuxeoapi", "records", uid)) >= 2
          /\ Sent("nuxeoapi", "records", uid)[2].index = 1
    /\ \E uid \in Nodes :
          /\ Len(Sent("dbquery", "records", uid)) >= 2
          /\ Sent("dbquery", "records", uid)[2].token # EmptyToken
          /\ Sent("dbquery", "records", uid)[2].token
                = Sent("dbquery", "records", uid)[1].next

\* the component batches written for a record by the Lookup-service variant
ComponentBatches(record) == WritesFor("dbquery", "children", record)

\* the document whose children a written batch holds
LevelOf(batch) == ParentOf(batch.entries[1])

\* the component batches of a record are written only after every request
\* for the components of the record: the record and every component in a
\* written batch have had their children requested, and no such request
\* follows a write
FlushAfterFetch ==
    /\ \A record \in Nodes :
          ComponentBatches(record) # <<>> =>
              /\ Sent("dbquery", "components", record) # <<>>
              /\ \A k \in DOMAIN ComponentBatches(record) :
                    \A c \in Range(ComponentBatches(record)[k].entries) :
                        Sent("dbquery", "components", c) # <<>>
    /\ \A p \in DOMAIN trace, q \in DOMAIN trace :
          (/\ p < q
           /\ trace[p].ev = "write" /\ trace[p].method = "dbquery"
           /\ trace[p].shape = "children"
           /\ IsRequest(trace[q]) /\ trace[q].method = "dbquery"
           /\ trace[q].shape = "components")
          => ~InSubtree(trace[q].uid, trace[p].uid)

(***************************************************************************)
(* C19, as stated: in the Lookup-service variant the component artifacts   *)
(* of a record are written bottom-up, the batches with the sub-components  *)
(* of a component before the batch of the level above that holds the       *)
(* component, and only once the component list of the record is fetched.   *)
(***************************************************************************)
C19_BottomUp ==
    /\ FlushAfterFetch
    /\ \A record \in Nodes :
          LET W == ComponentBatches(record)
          IN  \A i \in DOMAIN W, j \in DOMAIN W :
                  LevelOf(W[j]) \in Range(W[i].entries) => j < i

(***************************************************************************)
(* C19, amended: the component artifacts of a record are written only once *)
(* all components below the record are fetched, top-down: the batch that   *)
(* holds a component comes before the batches with its sub-components, no  *)
(* batch of a level comes before a batch of a level above it, and the page *)
(* indices 0, 1, 2, ... follow that order.                                 *)
(***************************************************************************)
C19_TopDown ==
    /\ FlushAfterFetch
    /\ \A record \in Nodes :
          LET W == ComponentBatches(record)
          IN  /\ \A k \in DOMAIN W : W[k].index = k - 1
              /\ \A i \in DOMAIN W, j \in DOMAIN W :
                    /\ LevelOf(W[j]) \in Range(W[i].entries) => i < j
                    /\ i < j => ~IsUnder(LevelOf(W[i]), LevelOf(W[j]))

\* the crawl has finished over a record (1) with a component (2) that has a
\* sub-component (3): the batch with 2 was written as page 0, the batch with
\* 3 as page 1
C19_Witness ==
    /\ phase = "done"
    /\ Len(ComponentBatches(1)) = 2
    /\ ComponentBatches(1)[1].entries = <<2>>
    /\ ComponentBatches(1)[2].entries = <<3>>
    /\ LevelOf(ComponentBatches(1)[2]) = 2

\* main of compare.py has run
Compared == report.status # ""

(***************************************************************************)
(* C20: the comparison loads the key 'nuxeoapi' for both sides of each     *)
(* equality check.  Whatever it reports (counts, verdicts, or the error it *)
(* ended with) is what the parent and the component artifacts of the API   *)
(* variant alone determine: both counts of a pair are the number of lines  *)
(* loaded from the API variant's artifacts and the report is the one of    *)
(* comparing these loads with themselves, whatever the artifacts of the    *)
(* Lookup-service variant are.                                             *)
(***************************************************************************)
C20_IndependentOfDbquery ==
    Compared =>
        \E pa \in get_records_results("nuxeoapi", FALSE),
           ca \in get_records_results("nuxeoapi", TRUE) :
            /\ report = Report(pa, pa, ca, ca)
            /\ \A k \in DOMAIN report.lines :
                  /\ report.lines[k].equal \in {"", "True"}
                  /\ k \in {1, 2} => report.lines[k].count = Len(pa.records)
                  /\ k \in {4, 5} => report.lines[k].count = Len(ca.records)

\* the comparison has reported equal parent and equal component data sets
\* over a store in which the Lookup-service variant left fewer parent records
\* than the API variant
C20_Witness ==
    /\ Compared
    /\ report.status = "ok"
    /\ Len(report.lines) = 6
    /\ report.lines[3].equal = "True"
    /\ \A a \in get_records_results("nuxeoapi", FALSE),
          b \in get_records_results("dbquery", FALSE) :
            Len(b.records) < Len(a.records)

\* the record lines of a stored artifact, as the loader splits them
RecordLines(key) == SplitLines(store[key], FALSE)

(***************************************************************************)
(* C21: no artifact is ever written with an empty record list.  In every   *)
(* reachable state of a crawl by either variant every write, stored or     *)
(* rejected by the store, was given at least one record, and every stored  *)
(* parent or component artifact holds at least one line, each line the     *)
(* serialization of a record of a write under that key, so it contributes  *)
(* at least one record line to the comparison loader.                      *)
(***************************************************************************)
C21_NoEmptyArtifact ==
    /\ \A i \in DOMAIN trace :
          trace[i].ev \in {"write", "lost"} => trace[i].entries # <<>>
    /\ \A key \in DOMAIN store :
          /\ Len(RecordLines(key)) >= 1
          /\ \A l \in DOMAIN RecordLines(key) : RecordLines(key)[l] # <<>>
          /\ \E i \in DOMAIN trace :
                /\ trace[i].ev = "write"
                /\ ArtifactKey(trace[i]) = key
                /\ DumpedLines(trace[i].entries) = RecordLines(key)

\* both crawls have finished, each of them received a component response
\* and a record response without entries and wrote component artifacts
C21_Witness ==
    /\ phase = "done"
    /\ \A method \in Methods :
          /\ \E i \in DOMAIN trace :
                /\ trace[i].ev = "request" /\ trace[i].method = method
                /\ trace[i].shape = "components" /\ trace[i].entries = <<>>
          /\ \E i \in DOMAIN trace :
                /\ trace[i].ev = "request" /\ trace[i].method = method
                /\ trace[i].shape = "records" /\ trace[i].entries = <<>>
          /\ \E key \in DOMAIN store : key.method = method /\ key.children

====
